---------------------------- MODULE Spec2Model ----------------------------
(***************************************************************************)
(* The job-orchestration handler of aws-batch/entrypoint.py: the lease     *)
(* row of one cache key in DynamoDB (Dynamo), the Batch client (Batch),    *)
(* the result-retrieval step (success_pipeline) and the Lambda handler,    *)
(* run by several concurrent, crash-prone invocations.                     *)
(*                                                                         *)
(* A service call of the handler is one atomic step (two calls share a     *)
(* step where nothing can observe the state between them); the steps of    *)
(* different invocations interleave freely.  All state of the program is   *)
(* keyed by the cache key and rows of different keys never interact, so    *)
(* the model follows one cache key.                                        *)
(***************************************************************************)
EXTENDS Integers, Sequences, FiniteSets, TLC

\* ------------------------------------------------------------ constants
TIMEOUT == 5
MAX_ITERS == 10
PENDING_STATES == {"SUBMITTED", "PENDING", "RUNNABLE", "STARTING", "RUNNING"}
SUCCESS_STATE == "SUCCEEDED"
FAILED_STATE == "FAILED"

\* ------------------------------------------------------------ bounds
\* invocations in flight at the same time
MaxInflight == 2
\* job definitions / jobs the compute service accepts for the key
MaxJobs == 2
\* last second of the clock
MaxClock == 6
\* owners of the direct lease-store calls of SpecStore
MaxOwners == 2

Slots == 1..MaxInflight
\* run ids (uuid4): one more than can be referenced at once, see FreshRunId
RunIds == 1..(MaxInflight + 1)
Dumps == {"d1"}
\* the instants at which the clock is read: in every lease period the last
\* second at which a lease taken at its start is still live and the first at
\* which it is stale
Instants == {t \in 0..MaxClock : t % (TIMEOUT + 1) \in {0, TIMEOUT}}

VARIABLES
    clock,         \* now(): epoch seconds
    row,           \* the DynamoDB item of the cache key
    input,         \* S3: <prefix>/input.data has been written
    output,        \* S3: content of <prefix>/result.dump, "absent" if none
    defs,          \* Batch: job definitions fn-<key>:<n>, TRUE while ACTIVE
    jobs,          \* Batch: status of job n
    deleteOnFail,  \* DELETE_DYNAMO_ON_FAIL
    pc,            \* per invocation slot: position in handler
    run,           \* per slot: Dynamo.run_id
    batch,         \* per slot: the Batch dataclass
    resp,          \* per slot: the response returned (or about to be)
    via,           \* per slot: which disjunct of the lock condition let it in
    nsub,          \* submit_job calls since the row was last deleted
    waits,         \* 204-waiting responses the retrying caller has received
    last,          \* SpecStore: the last direct lease-store call and its result
    late           \* per slot: invoked after some invocation had returned 200

vars == <<clock, row, input, output, defs, jobs, deleteOnFail, pc, run, batch,
          resp, via, nsub, waits, last, late>>

\* ------------------------------------------------------------ values
\* json state blob; AbsentObj: the item has no "obj" attribute
AbsentObj == [job_id |-> 0, job_def |-> 0, status |-> "absent"]
\* no item for the key; lk = 0: no lock_key attribute
NoRow == [exists |-> FALSE, lk |-> 0, ut |-> 0, obj |-> AbsentObj]
\* Batch(cache_key): job_id None, job_def None, status None, iters 0
NewBatch == [job_id |-> 0, job_def |-> 0, status |-> "None", iters |-> 0]
NoMsg == [kind |-> "", job_id |-> 0, status |-> ""]
\* dump "ABSENT": the response dict has no "dump" key; "null": it is None
NoResp == [status |-> 0, message |-> NoMsg, dump |-> "ABSENT"]
NoLast == [op |-> "", owner |-> 0, now |-> 0, ok |-> FALSE, before |-> NoRow]

Text(k) == [kind |-> k, job_id |-> 0, status |-> ""]

\* ------------------------------------------------------------ Dynamo
\* ConditionExpression "attribute_not_exists(#lk) OR #lk = :lk OR #ut < :to"
\* (faulty variants: :to without the timeout; no "#lk = :lk"; no "#ut < :to")
LeaseCond_Stale0(r, o, now) ==
    \/ ~r.exists
    \/ r.lk = 0
    \/ r.lk = o
    \/ r.ut < now

LeaseCond_NoOwner(r, o, now) ==
    \/ ~r.exists
    \/ r.lk = 0
    \/ r.ut < now - TIMEOUT

LeaseCond_NoStale(r, o, now) ==
    \/ ~r.exists
    \/ r.lk = 0
    \/ r.lk = o

LeaseCond(r, o, now) ==
    \/ ~r.exists
    \/ r.lk = 0
    \/ r.lk = o
    \/ r.ut < now - TIMEOUT

\* Dynamo.lock: SET #lk = :lk, #ut = :ut under LeaseCond; the item is created
\* when there is none
Dynamo_lock(r, o, now) ==
    IF LeaseCond(r, o, now)
    THEN [r EXCEPT !.exists = TRUE, !.lk = o, !.ut = now]
    ELSE r

\* Dynamo.put: SET #lk = :lk, #ut = :ut, #obj = :obj under LeaseCond
Dynamo_put(r, o, now, obj) ==
    IF LeaseCond(r, o, now)
    THEN [exists |-> TRUE, lk |-> o, ut |-> now, obj |-> obj]
    ELSE r

\* ConditionExpression "#lk = :lk" of Dynamo.unlock
\* (faulty variant: any recorded owner passes)
UnlockCond_Any(r, o) == r.exists /\ r.lk # 0

UnlockCond(r, o) == r.exists /\ r.lk = o

\* Dynamo.unlock: REMOVE #lk SET #ut = :ut under UnlockCond
\* (faulty variant: the update also goes through when there is no item, and
\* creates one)
Dynamo_unlock_Upsert(r, o, now) ==
    IF ~r.exists \/ r.lk = o
    THEN [r EXCEPT !.exists = TRUE, !.lk = 0, !.ut = now]
    ELSE r

Dynamo_unlock(r, o, now) ==
    IF UnlockCond(r, o) THEN [r EXCEPT !.lk = 0, !.ut = now] ELSE r

\* Dynamo.delete: delete_item under LeaseCond (a failed condition raises)
Dynamo_delete(r, o, now) == IF LeaseCond(r, o, now) THEN NoRow ELSE r

\* Dynamo.get: the "obj" attribute, None when the item has none
Dynamo_get(r) == r.obj

\* ------------------------------------------------------------ Batch
\* Batch(event["cache_key"], **info) with info = dynamo.get() or {}
LoadBatch(obj) ==
    IF obj.status = "absent"
    THEN NewBatch
    ELSE [job_id |-> obj.job_id, job_def |-> obj.job_def,
          status |-> obj.status, iters |-> 0]

\* Batch.state_dict
state_dict(b) == [job_id |-> b.job_id, job_def |-> b.job_def, status |-> b.status]

\* the message Batch.update returns for the status it stored
UpdateMsg(b) ==
    IF b.status = SUCCESS_STATE
    THEN [kind |-> "succeeded", job_id |-> b.job_id, status |-> ""]
    ELSE IF b.status = FAILED_STATE
    THEN [kind |-> "failed_json", job_id |-> b.job_id, status |-> ""]
    ELSE [kind |-> "processing", job_id |-> b.job_id, status |-> b.status]

\* the statuses describe_jobs reports for a job, in the order the service
\* moves it through them.  The handler treats the five PENDING_STATES alike
\* (one membership test), so the service of the model reports the first of
\* them for as long as the job is queued or runs and passes through the
\* other four between two polls.
NextStatus(st) ==
    CASE st = "SUBMITTED" -> {SUCCESS_STATE, FAILED_STATE}
      [] OTHER -> {}

\* ------------------------------------------------------------ responses
R_LockContention == [status |-> 204, message |-> Text("Could not acquire job lock"),
                     dump |-> "ABSENT"]
R_Created == [status |-> 201, message |-> Text("job created and submitted"),
              dump |-> "null"]
R_Waiting == [status |-> 204, message |-> Text("waiting for task to write output"),
              dump |-> "null"]
R_NoOutput == [status |-> 422, message |-> Text("task failed to write output"),
               dump |-> "null"]
R_Finished(d) == [status |-> 200, message |-> Text("Job finished"), dump |-> d]
R_Processing(b) == [status |-> 202, message |-> UpdateMsg(b), dump |-> "null"]
R_Failed(b) == [status |-> 400, message |-> UpdateMsg(b), dump |-> "null"]
\* except Exception as e: {"status": 400, "message": str(e), "dump": None}
R_Error == [status |-> 400, message |-> Text("str(e)"), dump |-> "null"]

\* ------------------------------------------------------------ handler
\* the service calls inside the try block of handler
TryCalls == {"get", "register", "submit_job", "put_submit", "update",
             "put_update", "put_pending", "delete", "gc", "s3get", "put_wait"}
\* between the successful dynamo.lock() and the end of dynamo.unlock()
InCS(s) == pc[s] \in TryCalls \cup {"unlock"}
Finished(s) == pc[s] \in {"idle", "done", "raised", "crashed"}

\* uuid4().hex: an id no row and no other invocation refers to
FreshRunId(s) ==
    LET used == {row.lk} \cup {run[t] : t \in Slots \ {s}}
        free == RunIds \ used
    IN  CHOOSE i \in free : \A j \in free : i <= j

\* the branch handler takes on the status batch.update() stored
\* (faulty variant: the FAILED test left out)
Dispatch_NoFailed(b) ==
    IF b.status \in PENDING_STATES THEN "pending" ELSE "success"

Dispatch(b) ==
    IF b.status \in PENDING_STATES THEN "pending"
    ELSE IF b.status = FAILED_STATE THEN "failed"
    ELSE "success"

\* success_pipeline starts with "if batch.iters == 0: batch.gc()"
\* (faulty variant: result retrieval starts by polling the job again)
SuccessEntry_Repoll(b) == "update"

SuccessEntry(b) == IF b.iters = 0 THEN "gc" ELSE "s3get"

Goto(s, p) == pc' = [pc EXCEPT ![s] = p]
\* a return (or the except clause) inside try: the finally clause runs next
\* (faulty variant: the return leaves the handler at once)
Respond_NoFinally(s, r) ==
    /\ resp' = [resp EXCEPT ![s] = r]
    /\ pc' = [pc EXCEPT ![s] = "done"]

Respond(s, r) ==
    /\ resp' = [resp EXCEPT ![s] = r]
    /\ pc' = [pc EXCEPT ![s] = "unlock"]

Init ==
    /\ clock = 0
    /\ row = NoRow
    /\ input = FALSE
    /\ output = "absent"
    /\ defs = <<>>
    /\ jobs = <<>>
    /\ deleteOnFail \in BOOLEAN
    /\ pc = [s \in Slots |-> "idle"]
    /\ run = [s \in Slots |-> 0]
    /\ batch = [s \in Slots |-> NewBatch]
    /\ resp = [s \in Slots |-> NoResp]
    /\ via = [s \in Slots |-> ""]
    /\ nsub = 0
    /\ waits = 0
    /\ last = NoLast
    /\ late = [s \in Slots |-> FALSE]

\* some invocation has returned 200 and its response is still at hand
Returned200 == \E t \in Slots : pc[t] = "done" /\ resp[t].status = 200

\* handler(event, context) is invoked: dynamo = Dynamo(event["cache_key"]).
\* An event without "cache_key" raises KeyError before the try block.
Invoke(s, hasKey) ==
    /\ Finished(s)
    /\ batch' = [batch EXCEPT ![s] = NewBatch]
    /\ resp' = [resp EXCEPT ![s] = NoResp]
    /\ via' = [via EXCEPT ![s] = ""]
    /\ late' = [late EXCEPT ![s] = hasKey /\ Returned200]
    /\ IF hasKey
       THEN /\ run' = [run EXCEPT ![s] = FreshRunId(s)]
            /\ Goto(s, "lock")
       ELSE /\ run' = [run EXCEPT ![s] = 0]
            /\ Goto(s, "raised")
    /\ UNCHANGED <<clock, row, input, output, defs, jobs, deleteOnFail, nsub, last>>

\* any client invokes the handler, with any event
Start(s) == (\E hasKey \in BOOLEAN : Invoke(s, hasKey)) /\ UNCHANGED waits

\* "if not dynamo.lock(): return {...}" (before try: no unlock on this path)
Lock(s) ==
    /\ pc[s] = "lock"
    /\ row' = Dynamo_lock(row, run[s], clock)
    /\ IF LeaseCond(row, run[s], clock)
       THEN /\ Goto(s, "get")
            /\ via' = [via EXCEPT ![s] =
                          IF ~row.exists \/ row.lk = 0 THEN "free"
                          ELSE IF row.lk = run[s] THEN "own" ELSE "stale"]
            /\ UNCHANGED <<resp, late>>
       ELSE /\ Goto(s, "done")
            /\ resp' = [resp EXCEPT ![s] = R_LockContention]
            /\ late' = [late EXCEPT ![s] = FALSE]
            /\ UNCHANGED via
    /\ UNCHANGED <<clock, input, output, defs, jobs, deleteOnFail, run, batch,
                   nsub, waits, last>>

\* update_item of lock raises a ClientError other than
\* ConditionalCheckFailedException: _update re-raises, handler has no try yet
LockRaise(s) ==
    /\ pc[s] = "lock"
    /\ Goto(s, "raised")
    /\ run' = [run EXCEPT ![s] = 0]
    /\ late' = [late EXCEPT ![s] = FALSE]
    /\ UNCHANGED <<clock, row, input, output, defs, jobs, deleteOnFail, batch,
                   resp, via, nsub, waits, last>>

\* info = dynamo.get() or {}; batch = Batch(event["cache_key"], **info) and the
\* dispatch on batch.status; resp["Item"] raises KeyError when the item is
\* gone, event["kwargs"] raises when the event carries none
Get(s, hasKwargs) ==
    /\ pc[s] = "get"
    /\ IF ~row.exists
       THEN /\ Respond(s, R_Error)
            /\ UNCHANGED batch
       ELSE LET b == LoadBatch(Dynamo_get(row)) IN
            /\ batch' = [batch EXCEPT ![s] = b]
            /\ IF b.status = "None"
               THEN IF hasKwargs
                    THEN Goto(s, "register") /\ UNCHANGED resp
                    ELSE Respond(s, R_Error)
               ELSE IF b.status = SUCCESS_STATE
               THEN Goto(s, SuccessEntry(b)) /\ UNCHANGED resp
               ELSE Goto(s, "update") /\ UNCHANGED resp
    /\ UNCHANGED <<clock, row, input, output, defs, jobs, deleteOnFail, run,
                   via, nsub, waits, last, late>>

\* Batch.submit, first part: s3_put(dump, f"{prefix}/input.data"), then
\* _create_job_def registers a new revision of fn-<cache_key> and keeps its
\* arn.  Nothing reads input.data before the job runs, so the two calls are
\* one step.
SubmitRegister(s) ==
    /\ pc[s] = "register"
    /\ Len(defs) < MaxJobs
    /\ input' = TRUE
    /\ defs' = Append(defs, TRUE)
    /\ batch' = [batch EXCEPT ![s].job_def = Len(defs) + 1]
    /\ Goto(s, "submit_job")
    /\ UNCHANGED <<clock, row, output, jobs, deleteOnFail, run, resp, via,
                   nsub, waits, last, late>>

\* Batch.submit, last call: client.submit_job; status = "submitted"
SubmitJob(s) ==
    /\ pc[s] = "submit_job"
    /\ Len(jobs) < MaxJobs
    /\ jobs' = Append(jobs, "SUBMITTED")
    /\ batch' = [batch EXCEPT ![s].job_id = Len(jobs) + 1, ![s].status = "submitted"]
    /\ nsub' = nsub + 1
    /\ Goto(s, "put_submit")
    /\ UNCHANGED <<clock, row, input, output, defs, deleteOnFail, run, resp,
                   via, waits, last, late>>

\* dynamo.put(batch.state_dict()); return 201 (the result of put is ignored)
PutSubmit(s) ==
    /\ pc[s] = "put_submit"
    /\ row' = Dynamo_put(row, run[s], clock, state_dict(batch[s]))
    /\ Respond(s, R_Created)
    /\ UNCHANGED <<clock, input, output, defs, jobs, deleteOnFail, run, batch,
                   via, nsub, waits, last, late>>

\* msg = batch.update(): describe_jobs, self.status = job["status"]
Update(s) ==
    /\ pc[s] = "update"
    /\ batch' = [batch EXCEPT ![s].status = jobs[batch[s].job_id]]
    /\ Goto(s, "put_update")
    /\ UNCHANGED <<clock, row, input, output, defs, jobs, deleteOnFail, run,
                   resp, via, nsub, waits, last, late>>

\* dynamo.put(batch.state_dict()) after update, then the dispatch on the status
PutUpdate(s) ==
    /\ pc[s] = "put_update"
    /\ row' = Dynamo_put(row, run[s], clock, state_dict(batch[s]))
    /\ IF Dispatch(batch[s]) = "pending"
       THEN Goto(s, "put_pending") /\ UNCHANGED resp
       ELSE IF Dispatch(batch[s]) = "failed"
       THEN IF deleteOnFail
            THEN Goto(s, "delete") /\ UNCHANGED resp
            ELSE Respond(s, R_Failed(batch[s]))
       ELSE Goto(s, SuccessEntry(batch[s])) /\ UNCHANGED resp
    /\ UNCHANGED <<clock, input, output, defs, jobs, deleteOnFail, run, batch,
                   via, nsub, waits, last, late>>

\* the second dynamo.put of the pending branch; return 202
PutPending(s) ==
    /\ pc[s] = "put_pending"
    /\ row' = Dynamo_put(row, run[s], clock, state_dict(batch[s]))
    /\ Respond(s, R_Processing(batch[s]))
    /\ UNCHANGED <<clock, input, output, defs, jobs, deleteOnFail, run, batch,
                   via, nsub, waits, last, late>>

\* dynamo.delete(); return 400.  delete_item is not wrapped by _update: a
\* failed condition raises and the except clause answers
Delete(s) ==
    /\ pc[s] = "delete"
    /\ row' = Dynamo_delete(row, run[s], clock)
    /\ IF LeaseCond(row, run[s], clock)
       THEN /\ Respond(s, R_Failed(batch[s]))
            /\ nsub' = IF row.exists THEN 0 ELSE nsub
       ELSE /\ Respond(s, R_Error)
            /\ UNCHANGED nsub
    /\ UNCHANGED <<clock, input, output, defs, jobs, deleteOnFail, run, batch,
                   via, waits, last, late>>

\* batch.gc(): deregister_job_definition; "already DEREGISTERED" is tolerated
Gc(s) ==
    /\ pc[s] = "gc"
    /\ defs' = [defs EXCEPT ![batch[s].job_def] = FALSE]
    /\ Goto(s, "s3get")
    /\ UNCHANGED <<clock, row, input, output, jobs, deleteOnFail, run, batch,
                   resp, via, nsub, waits, last, late>>

\* dump = s3_get(batch.result_key) (head_object and get_object of a blob
\* that is written once) and the rest of success_pipeline up to put
S3Get(s) ==
    /\ pc[s] = "s3get"
    /\ IF output = "absent"
       THEN IF batch[s].iters > MAX_ITERS
            THEN Respond(s, R_NoOutput) /\ UNCHANGED batch
            ELSE /\ batch' = [batch EXCEPT ![s].iters = @ + 1]
                 /\ Goto(s, "put_wait")
                 /\ UNCHANGED resp
       ELSE Respond(s, R_Finished(output)) /\ UNCHANGED batch
    /\ UNCHANGED <<clock, row, input, output, defs, jobs, deleteOnFail, run,
                   via, nsub, waits, last, late>>

\* dynamo.put(batch.state_dict()) of success_pipeline; return 204
PutWait(s) ==
    /\ pc[s] = "put_wait"
    /\ row' = Dynamo_put(row, run[s], clock, state_dict(batch[s]))
    /\ Respond(s, R_Waiting)
    /\ UNCHANGED <<clock, input, output, defs, jobs, deleteOnFail, run, batch,
                   via, nsub, waits, last, late>>

\* finally: dynamo.unlock(); the handler returns resp
Unlock(s) ==
    /\ pc[s] = "unlock"
    /\ row' = Dynamo_unlock(row, run[s], clock)
    /\ Goto(s, "done")
    /\ batch' = [batch EXCEPT ![s] = NewBatch]
    /\ via' = [via EXCEPT ![s] = ""]
    /\ late' = [late EXCEPT ![s] = FALSE]
    /\ UNCHANGED <<clock, input, output, defs, jobs, deleteOnFail, run, resp,
                   nsub, waits, last>>

\* update_item of unlock raises: the exception leaves the finally clause and
\* replaces the response
UnlockRaise(s) ==
    /\ pc[s] = "unlock"
    /\ Goto(s, "raised")
    /\ resp' = [resp EXCEPT ![s] = NoResp]
    /\ batch' = [batch EXCEPT ![s] = NewBatch]
    /\ via' = [via EXCEPT ![s] = ""]
    /\ run' = [run EXCEPT ![s] = 0]
    /\ late' = [late EXCEPT ![s] = FALSE]
    /\ UNCHANGED <<clock, row, input, output, defs, jobs, deleteOnFail, nsub,
                   waits, last>>

\* a service call inside try raises: except Exception answers 400 str(e)
Fail(s) ==
    /\ pc[s] \in TryCalls
    /\ Respond(s, R_Error)
    /\ UNCHANGED <<clock, row, input, output, defs, jobs, deleteOnFail, run,
                   batch, via, nsub, waits, last, late>>

\* the invocation dies (Lambda timeout, kill) holding the lease
Crash(s) ==
    /\ InCS(s)
    /\ Goto(s, "crashed")
    /\ batch' = [batch EXCEPT ![s] = NewBatch]
    /\ resp' = [resp EXCEPT ![s] = NoResp]
    /\ via' = [via EXCEPT ![s] = ""]
    /\ run' = [run EXCEPT ![s] = 0]
    /\ late' = [late EXCEPT ![s] = FALSE]
    /\ UNCHANGED <<clock, row, input, output, defs, jobs, deleteOnFail, nsub,
                   waits, last>>

\* ------------------------------------------------------------ environment
\* time() advances
Tick ==
    /\ \E t \in Instants :
          /\ t > clock
          /\ clock' = t
    /\ UNCHANGED <<row, input, output, defs, jobs, deleteOnFail, pc, run, batch,
                   resp, via, nsub, waits, last, late>>

\* the compute service moves a job to its next status
JobAdvance(j) ==
    /\ j \in DOMAIN jobs
    /\ \E st \in NextStatus(jobs[j]) : jobs' = [jobs EXCEPT ![j] = st]
    /\ UNCHANGED <<clock, row, input, output, defs, deleteOnFail, pc, run, batch,
                   resp, via, nsub, waits, last, late>>

\* the script of a job that has not failed writes its result to DML_OUTPUT
\* (<prefix>/result.dump), while it runs or after the service reports success
WriteOutput ==
    /\ output = "absent"
    /\ \E j \in DOMAIN jobs : jobs[j] # FAILED_STATE
    /\ \E d \in Dumps : output' = d
    /\ UNCHANGED <<clock, row, input, defs, jobs, deleteOnFail, pc, run, batch,
                   resp, via, nsub, waits, last, late>>

\* the next call of invocation s, every service answering
Step(s) ==
    \/ Lock(s) \/ Get(s, TRUE) \/ SubmitRegister(s) \/ SubmitJob(s)
    \/ PutSubmit(s) \/ Update(s) \/ PutUpdate(s) \/ PutPending(s) \/ Delete(s)
    \/ Gc(s) \/ S3Get(s) \/ PutWait(s) \/ Unlock(s)

\* the event has no usable "kwargs": the submit branch raises
BadKwargs(s) ==
    /\ row.exists
    /\ LoadBatch(Dynamo_get(row)).status = "None"
    /\ Get(s, FALSE)

Next ==
    \/ \E s \in Slots : Start(s)
    \/ \E s \in Slots : Step(s)
    \/ \E s \in Slots : BadKwargs(s)
    \/ \E s \in Slots : LockRaise(s)
    \/ \E s \in Slots : UnlockRaise(s)
    \/ \E s \in Slots : Fail(s)
    \/ \E s \in Slots : Crash(s)
    \/ Tick
    \/ \E j \in 1..MaxJobs : JobAdvance(j)
    \/ WriteOutput

Spec == Init /\ [][Next]_vars

\* ------------------------------------------------------------ lease store alone
\* The four conditional writes of Dynamo called directly, by any owner at any
\* time, as a test of the store would call them.
Owners == 1..MaxOwners
StoreObjs == {[job_id |-> 1, job_def |-> 1, status |-> "submitted"],
              [job_id |-> 1, job_def |-> 1, status |-> SUCCESS_STATE]}

Called(op, o, ok) ==
    last' = [op |-> op, owner |-> o, now |-> clock, ok |-> ok, before |-> row]

StoreLock(o) ==
    /\ row' = Dynamo_lock(row, o, clock)
    /\ Called("lock", o, LeaseCond(row, o, clock))
    /\ UNCHANGED <<clock, input, output, defs, jobs, deleteOnFail, pc, run,
                   batch, resp, via, nsub, waits, late>>

StorePut(o) ==
    /\ \E obj \in StoreObjs : row' = Dynamo_put(row, o, clock, obj)
    /\ Called("put", o, LeaseCond(row, o, clock))
    /\ UNCHANGED <<clock, input, output, defs, jobs, deleteOnFail, pc, run,
                   batch, resp, via, nsub, waits, late>>

StoreUnlock(o) ==
    /\ row' = Dynamo_unlock(row, o, clock)
    /\ Called("unlock", o, UnlockCond(row, o))
    /\ UNCHANGED <<clock, input, output, defs, jobs, deleteOnFail, pc, run,
                   batch, resp, via, nsub, waits, late>>

StoreDelete(o) ==
    /\ row' = Dynamo_delete(row, o, clock)
    /\ Called("delete", o, LeaseCond(row, o, clock))
    /\ UNCHANGED <<clock, input, output, defs, jobs, deleteOnFail, pc, run,
                   batch, resp, via, nsub, waits, late>>

NextStore ==
    \/ \E o \in Owners : StoreLock(o)
    \/ \E o \in Owners : StorePut(o)
    \/ \E o \in Owners : StoreUnlock(o)
    \/ \E o \in Owners : StoreDelete(o)
    \/ Tick

SpecStore == Init /\ [][NextStore]_vars

\* ------------------------------------------------------------ one retrying caller
\* The upstream caller of the handler: it sends well-formed events, one
\* invocation at a time, and invokes again until it holds a terminal
\* response.  Services answer every call; an invocation may still die.
Caller == CHOOSE s \in Slots : \A t \in Slots : s <= t
Terminal(r) == r.status \in {200, 400, 422}
CallerDone == pc[Caller] = "done" /\ Terminal(resp[Caller])

Min(a, b) == IF a < b THEN a ELSE b

Reinvoke ==
    /\ ~CallerDone
    /\ Invoke(Caller, TRUE)
    /\ waits' = IF pc[Caller] = "done" /\ resp[Caller] = R_Waiting
                THEN Min(waits + 1, MAX_ITERS + 2)
                ELSE waits

\* an invocation dies holding the lease, early enough for the clock of the
\* model to outlast the lease
CrashEarly ==
    /\ clock + TIMEOUT < MaxClock
    /\ row.exists /\ row.lk = run[Caller]
    /\ Crash(Caller)

NextLive ==
    \/ Reinvoke
    \/ Step(Caller)
    \/ CrashEarly
    \/ Tick
    \/ \E j \in 1..MaxJobs : JobAdvance(j)
    \/ WriteOutput

\* Lambda runs an invocation to its end unless it dies; the caller keeps
\* invoking; time passes; the compute service finishes every job and a job
\* that does not fail writes its output.
Fairness ==
    /\ WF_vars(Reinvoke)
    /\ WF_vars(Step(Caller))
    /\ WF_vars(Tick)
    /\ \A j \in 1..MaxJobs : WF_vars(JobAdvance(j))
    /\ WF_vars(WriteOutput)

SpecLive == Init /\ [][NextLive]_vars /\ Fairness

\* ------------------------------------------------------------ claims
\* C1 (as stated; refuted): while the record of the cache key is not deleted,
\* submit_job is performed at most once for the key, whatever the
\* interleaving, lease takeovers and crashes.
C1_SubmitAtMostOnce == nsub <= 1

\* C2 (as stated; refuted): in every reachable state at most one in-flight
\* invocation is between its successful Dynamo.lock and its final
\* Dynamo.unlock.
C2_OneInCriticalSection ==
    \A s, t \in Slots : s # t => ~(InCS(s) /\ InCS(t))

\* C2 (amended): an invocation that is between its lock and its unlock and is
\* the row's recorded lock owner loses the lease to another invocation (the
\* owner field changes or the row is deleted by a step that is not its own)
\* only when the row's update time is older than now - TIMEOUT; invocations
\* exclude each other only while their lease is younger than that.
C2_LeaseLostOnlyWhenStale ==
    [][\A t \in Slots :
          ( /\ InCS(t)
            /\ row.exists /\ row.lk = run[t]
            /\ pc'[t] = pc[t]
            /\ (~row'.exists \/ row'.lk # run[t]) )
          => row.ut < clock - TIMEOUT]_vars

\* two invocations between lock and unlock, the second let in by a stale lease
C2_Witness ==
    \E s, t \in Slots :
        /\ s # t /\ InCS(s) /\ InCS(t)
        /\ via[s] = "stale"
        /\ row.exists /\ row.lk = run[s]

\* C3: once a handler invocation that acquired the lock has returned, on
\* whichever path (response branch or except clause), the row's lock owner is
\* not that invocation's run id.
C3_LeaseReleased ==
    \A s \in Slots :
        (pc[s] = "done" /\ resp[s] # R_LockContention)
            => ~(row.exists /\ row.lk = run[s])

\* an invocation returned the except clause's 400 and the row is unlocked
C3_Witness ==
    \E s \in Slots :
        /\ pc[s] = "done" /\ resp[s] = R_Error
        /\ row.exists /\ row.lk = 0 /\ row.obj # AbsentObj

\* C4 (as stated; refuted): with the job SUCCEEDED and the output absent, the
\* retrying caller receives 204 "waiting for task to write output" at most
\* MAX_ITERS + 1 times (iterations 0..MAX_ITERS) before the 422.
C4_WaitingBounded == waits <= MAX_ITERS + 1

\* C5: Dynamo.lock by owner o at time now returns true and sets lock owner o
\* and update time now, leaving the state blob, exactly when the row has no
\* lock owner, or its owner is o, or its update time < now - TIMEOUT;
\* otherwise it returns false and leaves the row unchanged.
C5_LockContract ==
    last.op = "lock" =>
        LET b == last.before
            free == ~b.exists \/ b.lk = 0
            mine == b.exists /\ b.lk = last.owner
            stale == b.exists /\ b.ut + TIMEOUT < last.now
        IN  /\ last.ok <=> (free \/ mine \/ stale)
            /\ last.ok => row = [exists |-> TRUE, lk |-> last.owner,
                                 ut |-> last.now, obj |-> b.obj]
            /\ ~last.ok => row = b

\* a lock attempt by another owner on a lease exactly TIMEOUT old fails
C5_Witness ==
    /\ last.op = "lock" /\ ~last.ok
    /\ last.before.lk # last.owner
    /\ last.now - last.before.ut = TIMEOUT
    /\ row = last.before

\* C6: a lock attempt on a row whose update time is more than TIMEOUT in the
\* past succeeds whoever owns it, and a lease left behind by an invocation
\* that died is eventually taken over by a retry of the caller.
OrphanLease ==
    /\ row.exists /\ row.lk # 0
    /\ \A s \in Slots : ~(InCS(s) /\ run[s] = row.lk)

C6_StaleLeaseTakenOver ==
    /\ [][\A s \in Slots :
             (pc[s] = "lock" /\ pc'[s] # "lock" /\ row.exists
              /\ row.ut + TIMEOUT < clock)
             => (pc'[s] = "get" /\ row'.lk = run[s])]_vars
    /\ (OrphanLease ~> (InCS(Caller) /\ via[Caller] = "stale"))

\* the caller's retry holds the lease it took over from a dead invocation
C6_Witness ==
    /\ pc[Caller] = "get" /\ via[Caller] = "stale"
    /\ row.lk = run[Caller] /\ row.ut = clock

\* C7 (as stated; refuted): no error propagates out of handler to the caller.
C7_NoErrorPropagates == \A s \in Slots : pc[s] # "raised"

\* C8 (as stated; refuted): when the lock is refused the handler returns
\* {status 204, message "Could not acquire job lock", dump null}, and leaves
\* the row, the blob store and the compute service unchanged without
\* calling unlock.
C8_LockContention ==
    [][\A s \in Slots :
          (pc[s] = "lock" /\ pc'[s] = "done")
          => /\ resp'[s] = [status |-> 204,
                            message |-> Text("Could not acquire job lock"),
                            dump |-> "null"]
             /\ UNCHANGED <<row, input, output, defs, jobs>>]_vars

\* C9: a response with status 200 is only produced by an invocation whose
\* Batch holds status SUCCEEDED for a job the service reports SUCCEEDED, with
\* the output blob present, and its dump is that blob's content.  (The Batch
\* object lives until the handler returns; the blob is checked at the return
\* and after.)
C9_SuccessOnly ==
    \A s \in Slots :
        resp[s].status = 200 =>
            /\ output # "absent"
            /\ resp[s].dump = output
            /\ pc[s] \in {"unlock", "done"}
            /\ pc[s] = "unlock" =>
                  /\ batch[s].status = SUCCESS_STATE
                  /\ batch[s].job_id \in DOMAIN jobs
                  /\ jobs[batch[s].job_id] = SUCCESS_STATE

\* an invocation returned 200 with the blob while another job of the key failed
C9_Witness ==
    \E s \in Slots :
        /\ pc[s] = "done" /\ resp[s].status = 200 /\ resp[s].dump = output
        /\ \E j \in DOMAIN jobs : jobs[j] = FAILED_STATE

\* C10: the retrying caller eventually holds a terminal response: 200 with
\* the output blob when the recorded job succeeded, 400 with the failure
\* message of the job when it failed.
C10_Succeeded ==
    /\ resp[Caller].status = 200
    /\ resp[Caller].dump = output /\ output # "absent"
    /\ row.exists /\ row.obj.status = SUCCESS_STATE
    /\ jobs[row.obj.job_id] = SUCCESS_STATE

C10_Failed ==
    /\ resp[Caller].status = 400
    /\ resp[Caller].message.kind = "failed_json"
    /\ jobs[resp[Caller].message.job_id] = FAILED_STATE

C12_Rank(st) ==
    CASE st = "absent" -> 0
      [] st = "submitted" -> 1
      [] st \in PENDING_STATES -> 2
      [] OTHER -> 3

C12_StatusMovesForward ==
    [][(row.exists /\ row'.exists) =>
          /\ C12_Rank(row'.obj.status) >= C12_Rank(row.obj.status)
          /\ (C12_Rank(row.obj.status) = 3 => row'.obj.status = row.obj.status)]_vars

\* C13: once the row holds a job_id and a job_def, no write replaces them
\* with other values while the row exists.
C13_JobIdentityKept ==
    [][(row.exists /\ row.obj.status # "absent" /\ row'.exists) =>
          /\ row'.obj.job_id = row.obj.job_id
          /\ row'.obj.job_def = row.obj.job_def]_vars

\* C14: Batch.gc releases a job definition at most once over all
\* invocations: an invocation that enters result retrieval after the
\* definition was released does not deregister it again.
C14_ReleasedOnce ==
    [][(pc[Caller] = "gc" /\ pc'[Caller] = "s3get") =>
          defs[batch[Caller].job_def]]_vars

\* C15: every put and every delete that changes the row is made by the
\* invocation the row records as lock owner just before the write.
C15_WriterOwnsLease ==
    [][\A s \in Slots :
          (/\ pc[s] \in {"put_submit", "put_update", "put_pending", "put_wait",
                         "delete"}
           /\ pc'[s] # pc[s]
           /\ row' # row)
          => (row.exists /\ row.lk = run[s])]_vars

\* C16: the increment of iterations made by an invocation that answered
\* "waiting for task to write output" is persisted: once the caller has
\* received that answer, an invocation that enters result retrieval has
\* loaded a count of at least one.
C16_IterationsPersisted ==
    (waits >= 1 /\ pc[Caller] \in {"gc", "s3get"}) => batch[Caller].iters >= 1

\* C17: Dynamo.unlock by owner o removes the lock owner and refreshes the
\* update time exactly when the row records o as its lock owner; when
\* another owner holds the lease, when no owner is recorded, or when there is
\* no row, it returns False and leaves the store as it was.
C17_UnlockContract ==
    last.op = "unlock" =>
        LET b == last.before
            held == b.exists /\ b.lk = last.owner
        IN  /\ last.ok <=> held
            /\ last.ok => row = [exists |-> TRUE, lk |-> 0, ut |-> last.now,
                                 obj |-> b.obj]
            /\ ~last.ok => row = b

\* an unlock by an owner other than the lease holder left the lease in place
C17_Witness ==
    /\ last.op = "unlock" /\ ~last.ok
    /\ last.before.exists /\ last.before.lk \notin {0, last.owner}
    /\ row = last.before /\ row.lk # 0

\* C18: when the handler answers 201, the row stores the job_id and job_def
\* of the job this invocation just submitted, with status "submitted".
C18_CreatedIsRecorded ==
    [][\A s \in Slots :
          (pc[s] = "put_submit" /\ pc'[s] = "unlock" /\ resp'[s] = R_Created)
          => /\ row'.exists
             /\ row'.obj = [job_id |-> batch[s].job_id,
                            job_def |-> batch[s].job_def,
                            status |-> "submitted"]]_vars

\* C19: an invocation never loops and never waits for the job: every step of
\* the handler moves it strictly forward through lock, load, at most one
\* submission or one status poll, the writes, result retrieval and unlock;
\* a step of the handler is possible whatever the job's status, and the
\* invocation reaches its end.
C19_Rank(p) ==
    CASE p = "lock" -> 0
      [] p = "get" -> 1
      [] p \in {"register", "update"} -> 2
      [] p \in {"submit_job", "put_update"} -> 3
      [] p \in {"put_submit", "put_pending", "delete"} -> 4
      [] p = "gc" -> 5
      [] p = "s3get" -> 6
      [] p = "put_wait" -> 7
      [] p = "unlock" -> 8
      [] OTHER -> 9

C19_InFlight == pc[Caller] \in TryCalls \cup {"lock", "unlock"}

C19_NoLoopNoWait ==
    /\ [][(C19_InFlight /\ pc'[Caller] # pc[Caller])
            => C19_Rank(pc'[Caller]) > C19_Rank(pc[Caller])]_vars
    /\ [](C19_InFlight => ENABLED Step(Caller))
    /\ (C19_InFlight ~> ~C19_InFlight)

\* the invocation polled once and returned 202 while the job is still pending
C19_Witness ==
    /\ pc[Caller] = "done" /\ resp[Caller].status = 202
    /\ resp[Caller].message.job_id \in DOMAIN jobs
    /\ jobs[resp[Caller].message.job_id] \in PENDING_STATES

\* C20: terminal success is stable: an invocation made after some invocation
\* returned 200, and that acquired the lock and met no service error, also
\* returns 200 with the same dump.
C20_SuccessIsStable ==
    [][\A s \in Slots :
          (/\ late[s]
           /\ pc[s] = "unlock" /\ pc'[s] = "done"
           /\ resp[s] # R_Error)
          => (resp[s].status = 200 /\ resp[s].dump = output)]_vars

=============================================================================
